---- MODULE Spec2Model ----
(***************************************************************************)
(* Pattern localization of ElenaErratic/bug-finder:                        *)
(*   src/localization/subgraphs.py  SubgraphSeeker                         *)
(*   src/localization/run.py        locate_pattern_by_subtree,             *)
(*                                  locate_pattern_by_subgraph_from_source *)
(*                                                                         *)
(* Python strings that the code inspects character by character (labels,   *)
(* original labels, suffix hints) are sequences of one-character strings.  *)
(* A Python dict is a function whose DOMAIN is the set of keys present.    *)
(***************************************************************************)
EXTENDS Integers, Sequences, FiniteSets, TLC

VARIABLES
    \* _are_nodes_equal: the two attribute dicts and the call's outcome
    target_node, pattern_node, eq_result,
    \* find_isomorphic_subgraphs: seeker's target, the argument, the outcome
    target_method_graph, pattern_graph, found,
    \* locate_pattern_by_*: the candidates in iteration order, the loop
    \* position, the locals max_size and result_mappings, what was printed
    mode, cands, idx, max_size, result_mappings, pc, output

vars == <<target_node, pattern_node, eq_result,
          target_method_graph, pattern_graph, found,
          mode, cands, idx, max_size, result_mappings, pc, output>>

nodeVars == <<target_node, pattern_node, eq_result>>
matchVars == <<target_method_graph, pattern_graph, found>>
locateVars == <<mode, cands, idx, max_size, result_mappings, pc, output>>

(***************************************************************************)
(* Bounds                                                                  *)
(***************************************************************************)
\* longest original_label / suffix hint drawn for a node comparison
MaxStrLen == 2

Alphabet == {"a", "z"}

RECURSIVE Words(_)
Words(n) ==
    IF n = 0 THEN {<< >>}
    ELSE LET shorter == Words(n - 1)
         IN  shorter \cup {Append(w, c) : w \in shorter, c \in Alphabet}

(***************************************************************************)
(* Python helpers                                                          *)
(***************************************************************************)
\* str.startswith
StartsWith(s, prefix) ==
    /\ Len(s) >= Len(prefix)
    /\ SubSeq(s, 1, Len(prefix)) = prefix

\* str.endswith
EndsWith(s, suffix) ==
    /\ Len(s) >= Len(suffix)
    /\ SubSeq(s, Len(s) - Len(suffix) + 1, Len(s)) = suffix

EmptyDict == [k \in {} |-> k]

\* a dict holding key k iff has is TRUE
Item(has, k, v) == IF has THEN k :> v ELSE EmptyDict

VarPrefix == <<"v", "a", "r">>

KeyErrorRaised == "KeyError"
PyTrue == "True"
PyFalse == "False"

(***************************************************************************)
(* SubgraphSeeker._are_nodes_equal                                         *)
(***************************************************************************)
\* the guard of the first return: some attribute is missing
MissingAttrs(target_node_, pattern_node_) ==
    \/ "label" \notin DOMAIN target_node_
    \/ "original_label" \notin DOMAIN target_node_
    \/ "label" \notin DOMAIN pattern_node_
    \/ "original_label" \notin DOMAIN pattern_node_

BothVariable_PatternOnly(target_node_, pattern_node_) ==
    StartsWith(pattern_node_["label"], VarPrefix)

\* the guard of the variable branch
BothVariable(target_node_, pattern_node_) ==
    /\ StartsWith(pattern_node_["label"], VarPrefix)
    /\ StartsWith(target_node_["label"], VarPrefix)

\* lcs = pattern_node.get('longest_common_var_name_suffix', None); lcs is None
LcsIsNone(pattern_node_) ==
    "longest_common_var_name_suffix" \notin DOMAIN pattern_node_

VarBranchValue_Prefix(target_node_, pattern_node_) ==
    \/ /\ ~LcsIsNone(pattern_node_)
       /\ StartsWith(target_node_["original_label"],
                     pattern_node_["longest_common_var_name_suffix"])
    \/ LcsIsNone(pattern_node_)

\* the return expression of the variable branch: (a and b) or c
VarBranchValue(target_node_, pattern_node_) ==
    \/ /\ ~LcsIsNone(pattern_node_)
       /\ EndsWith(target_node_["original_label"],
                   pattern_node_["longest_common_var_name_suffix"])
    \/ LcsIsNone(pattern_node_)

VarBranch_NoRaise(target_node_, pattern_node_) ==
    IF VarBranchValue(target_node_, pattern_node_) THEN PyTrue ELSE PyFalse

\* the body of the variable branch
VarBranch(target_node_, pattern_node_) ==
    IF LcsIsNone(pattern_node_)
    THEN KeyErrorRaised
    ELSE IF VarBranchValue(target_node_, pattern_node_) THEN PyTrue ELSE PyFalse

\* the last return: exact identity of both attributes
ExactlyEqual(target_node_, pattern_node_) ==
    /\ pattern_node_["label"] = target_node_["label"]
    /\ pattern_node_["original_label"] = target_node_["original_label"]

AreNodesEqual(target_node_, pattern_node_) ==
    IF MissingAttrs(target_node_, pattern_node_)
    THEN PyFalse
    ELSE IF BothVariable(target_node_, pattern_node_)
    THEN VarBranch(target_node_, pattern_node_)
    ELSE IF ExactlyEqual(target_node_, pattern_node_) THEN PyTrue ELSE PyFalse

(***************************************************************************)
(* Node comparison on its own: every pair of attribute dicts over the      *)
(* label set and the words up to MaxStrLen                                 *)
(***************************************************************************)
AddLabel == <<"a", "d", "d">>

\* 'var', a longer label of the variable category, a label sharing only
\* part of the prefix, and a label of another category
LabelValues == {VarPrefix, <<"v", "a", "r", "s">>, <<"v", "a">>, AddLabel}

TargetNodeDicts ==
    {Item(hl, "label", l) @@ Item(ho, "original_label", o) :
        hl \in BOOLEAN, l \in LabelValues,
        ho \in BOOLEAN, o \in Words(MaxStrLen)}

PatternNodeDicts ==
    {t @@ Item(hs, "longest_common_var_name_suffix", s) :
        t \in TargetNodeDicts, hs \in BOOLEAN, s \in Words(MaxStrLen)}

NodesIdle ==
    /\ target_node = EmptyDict
    /\ pattern_node = EmptyDict
    /\ eq_result = "idle"

MatchIdle ==
    /\ target_method_graph = EmptyDict
    /\ pattern_graph = EmptyDict
    /\ found = [kind |-> "idle"]

LocateIdle ==
    /\ mode = "idle"
    /\ cands = << >>
    /\ idx = 0
    /\ max_size = 0
    /\ result_mappings = EmptyDict
    /\ pc = "idle"
    /\ output = "idle"

InitNodes ==
    /\ target_node \in TargetNodeDicts
    /\ pattern_node \in PatternNodeDicts
    /\ eq_result = "pending"
    /\ MatchIdle
    /\ LocateIdle

\* one call of _are_nodes_equal(target_node, pattern_node)
CompareNodes ==
    /\ eq_result = "pending"
    /\ eq_result' = AreNodesEqual(target_node, pattern_node)
    /\ UNCHANGED <<target_node, pattern_node>>
    /\ UNCHANGED matchVars
    /\ UNCHANGED locateVars

NextNodes == CompareNodes

SpecNodes == InitNodes /\ [][NextNodes]_vars

(***************************************************************************)
(* networkx.MultiDiGraph as the code uses it: nodes is the dict from node  *)
(* id to attribute dict, edges gives each (source, target, kind) the       *)
(* number of parallel edges of that kind                                   *)
(***************************************************************************)
EdgeKinds == {"operand", "control"}

\* most parallel or distinct edges drawn for a target graph
MaxTargetEdges == 2
\* most edges drawn for a pattern graph among its before nodes
MaxPatternEdges == 1

Triples(ids) ==
    {t \in ids \X ids \X EdgeKinds : t[1] # t[2]}

NoEdges(ids) == [t \in Triples(ids) |-> 0]

\* every multiset of at most n edges over the triples of ids
RECURSIVE EdgeBags(_, _)
EdgeBags(ids, n) ==
    IF n = 0 THEN {NoEdges(ids)}
    ELSE LET fewer == EdgeBags(ids, n - 1)
         IN  fewer \cup {[b EXCEPT ![t] = @ + 1] : b \in fewer, t \in Triples(ids)}

Graph(nodes, edges) == [nodes |-> nodes, edges |-> edges]

\* G.number_of_edges(u, v), as the matcher counts them: every kind alike
RECURSIVE SumKinds(_, _, _, _)
SumKinds(G, u, v, kinds) ==
    IF kinds = {} THEN 0
    ELSE LET k == CHOOSE x \in kinds : TRUE
         IN  (IF <<u, v, k>> \in DOMAIN G.edges THEN G.edges[<<u, v, k>>] ELSE 0)
             + SumKinds(G, u, v, kinds \ {k})

NumberOfEdges(G, u, v) == SumKinds(G, u, v, EdgeKinds)

\* G.subgraph(keep): the nodes kept and the edges among them
Subgraph(G, keep) ==
    Graph([n \in keep |-> G.nodes[n]],
          [t \in {e \in DOMAIN G.edges : e[1] \in keep /\ e[2] \in keep}
              |-> G.edges[t]])

(***************************************************************************)
(* SubgraphSeeker.find_isomorphic_subgraphs                                *)
(*                                                                         *)
(* MultiDiGraphMatcher(G1=target, G2=before part, node_match=...) with no  *)
(* edge_match: subgraph_isomorphisms_iter yields core_1, a dict from G1    *)
(* (target) node to G2 (pattern) node, for every injective placement of    *)
(* the G2 nodes under which each ordered pair of G2 nodes has exactly as   *)
(* many edges as the pair of G1 nodes they are placed on (edge attributes  *)
(* are not compared) and node_match holds of every placed pair.            *)
(***************************************************************************)
\* the list comprehension selecting the before part
BeforeNodes(P) == {n \in DOMAIN P.nodes : P.nodes[n]["color"] = "red2"}

Injections(A, B) ==
    {m \in [A -> B] : \A p, q \in A : p # q => m[p] # m[q]}

SyntacticFeasible_WholeGraph(G1, G2, m) ==
    /\ \A p, q \in DOMAIN G2.nodes :
          NumberOfEdges(G1, m[p], m[q]) = NumberOfEdges(G2, p, q)
    /\ Cardinality(DOMAIN G1.nodes) = Cardinality(DOMAIN G2.nodes)

\* the matcher's edge test under the 'subgraph' test: equal edge counts
\* between every two placed nodes, in each direction, self-loops included
SyntacticFeasible(G1, G2, m) ==
    \A p, q \in DOMAIN G2.nodes :
        NumberOfEdges(G1, m[p], m[q]) = NumberOfEdges(G2, p, q)

\* the matcher's node test: node_match(G1.nodes[n1], G2.nodes[n2])
SemanticFeasible(G1, G2, m) ==
    \A p \in DOMAIN G2.nodes :
        AreNodesEqual(G1.nodes[m[p]], G2.nodes[p]) = PyTrue

Core1_PatternKeyed(m) == m

\* the dict the matcher yields: keyed by G1 node
Core1(m) ==
    [t \in {m[p] : p \in DOMAIN m} |-> CHOOSE p \in DOMAIN m : m[p] = t]

SubgraphIsomorphisms(G1, G2) ==
    {Core1(m) : m \in {i \in Injections(DOMAIN G2.nodes, DOMAIN G1.nodes) :
                          /\ SyntacticFeasible(G1, G2, i)
                          /\ SemanticFeasible(G1, G2, i)}}

\* node_match raises on some pair the search may try; which pairs it tries
\* depends on the matcher's candidate order and pruning
NodeMatchMayRaise(G1, G2) ==
    \E t \in DOMAIN G1.nodes, p \in DOMAIN G2.nodes :
        AreNodesEqual(G1.nodes[t], G2.nodes[p]) = KeyErrorRaised

NoneFound == [kind |-> "None"]
Raised == [kind |-> "KeyError"]
Generator(mappings) == [kind |-> "generator", mappings |-> mappings]

\* the outcomes of find_isomorphic_subgraphs(pattern) on target G
FindIsomorphicSubgraphs(G, P) ==
    LET pattern_graph_before == Subgraph(P, BeforeNodes(P))
        isos == SubgraphIsomorphisms(G, pattern_graph_before)
    IN  {IF isos = {} THEN NoneFound ELSE Generator(isos)}
        \cup (IF NodeMatchMayRaise(G, pattern_graph_before) THEN {Raised} ELSE {})

(***************************************************************************)
(* Graph matching on its own: targets over nodes a, b, c and patterns with *)
(* before nodes x, y and an after node w                                   *)
(***************************************************************************)
TVarA == "label" :> VarPrefix @@ "original_label" :> <<"a">>
TAdd == "label" :> AddLabel @@ "original_label" :> AddLabel

Before(attrs) == attrs @@ "color" :> "red2"
After(attrs) == attrs @@ "color" :> "green"

PVarA == Before(TVarA @@ "longest_common_var_name_suffix" :> <<"a">>)
PVarZ == Before(TVarA @@ "longest_common_var_name_suffix" :> <<"z">>)
PVarNoHint == Before(TVarA)
PAdd == Before(TAdd)
PAfter == After(TAdd)

TargetGraphs ==
    {Graph("a" :> TVarA @@ "b" :> TAdd, e) :
        e \in EdgeBags({"a", "b"}, MaxTargetEdges)}
    \cup
    {Graph("a" :> TVarA @@ "b" :> TAdd @@ "c" :> c, e) :
        c \in {TVarA, TAdd}, e \in EdgeBags({"a", "b", "c"}, MaxTargetEdges)}

\* the after node w, alone or with an edge from x
WithAfter(G, edge) ==
    Graph(G.nodes @@ "w" :> PAfter,
          G.edges @@ [t \in (IF edge /\ "x" \in DOMAIN G.nodes
                             THEN {<<"x", "w", "operand">>} ELSE {}) |-> 1])

BeforeGraphs ==
    {Graph(EmptyDict, NoEdges({}))}
    \cup
    {Graph("x" :> x, NoEdges({"x"})) : x \in {PVarA, PVarZ, PVarNoHint, PAdd}}
    \cup
    {Graph("x" :> x @@ "y" :> y, e) :
        x \in {PVarA, PVarZ, PVarNoHint, PAdd}, y \in {PVarA, PAdd},
        e \in EdgeBags({"x", "y"}, MaxPatternEdges)}

PatternGraphs ==
    BeforeGraphs \cup {WithAfter(G, edge) : G \in BeforeGraphs, edge \in BOOLEAN}

FoundPending == [kind |-> "pending"]

InitMatch ==
    /\ target_method_graph \in TargetGraphs
    /\ pattern_graph \in PatternGraphs
    /\ found = FoundPending
    /\ target_node = EmptyDict
    /\ pattern_node = EmptyDict
    /\ eq_result = "idle"
    /\ LocateIdle

\* one call of seeker.find_isomorphic_subgraphs(pattern_graph)
Find ==
    /\ found = FoundPending
    /\ found' \in FindIsomorphicSubgraphs(target_method_graph, pattern_graph)
    /\ UNCHANGED <<target_method_graph, pattern_graph>>
    /\ UNCHANGED nodeVars
    /\ UNCHANGED locateVars

NextMatch == Find

SpecMatch == InitMatch /\ [][NextMatch]_vars

(***************************************************************************)
(* Claims about find_isomorphic_subgraphs (SpecMatch)                      *)
(***************************************************************************)
FindReturned == found.kind \in {"None", "generator"}

QueryGraph == Subgraph(pattern_graph, BeforeNodes(pattern_graph))

\* the target nodes a yielded dict M places pattern node p on
ImagesOf(M, p) == {t \in DOMAIN M : M[t] = p}

ImageOf(M, p) == CHOOSE t \in ImagesOf(M, p) : TRUE

EdgeCount(G, u, v, k) ==
    IF <<u, v, k>> \in DOMAIN G.edges THEN G.edges[<<u, v, k>>] ELSE 0

MappingIsInjectiveAndTotal(M) ==
    /\ DOMAIN M \subseteq DOMAIN target_method_graph.nodes
    /\ \A p \in DOMAIN QueryGraph.nodes : Cardinality(ImagesOf(M, p)) = 1
    /\ \A t \in DOMAIN M : M[t] \in DOMAIN QueryGraph.nodes

\* C2 (as claimed): every yielded mapping is injective, places every before
\* node on a target node, and for every query edge (pu, pv, k) of
\* multiplicity m the target has at least m edges of the same kind k from
\* the image of pu to the image of pv.
C2_KindPreserving ==
    found.kind = "generator" =>
        \A M \in found.mappings :
            /\ MappingIsInjectiveAndTotal(M)
            /\ \A e \in DOMAIN QueryGraph.edges :
                  EdgeCount(target_method_graph,
                            ImageOf(M, e[1]), ImageOf(M, e[2]), e[3])
                      >= QueryGraph.edges[e]

\* an injective placement of the query nodes on target nodes, node_match
\* true of every pair
CompatiblePlacements ==
    {m \in Injections(DOMAIN QueryGraph.nodes, DOMAIN target_method_graph.nodes) :
        \A p \in DOMAIN m :
            AreNodesEqual(target_method_graph.nodes[m[p]], QueryGraph.nodes[p]) = PyTrue}

Covers(m) ==
    \A e \in DOMAIN QueryGraph.edges :
        EdgeCount(target_method_graph, m[e[1]], m[e[2]], e[3]) >= QueryGraph.edges[e]

CoversExactly(m) ==
    \A p, q \in DOMAIN m : \A k \in EdgeKinds :
        EdgeCount(target_method_graph, m[p], m[q], k) = EdgeCount(QueryGraph, p, q, k)

\* C3 (as claimed): a match is reported whenever some compatible injective
\* placement covers every query edge, whatever else lies between the
\* matched target nodes.
C3_Monomorphism ==
    (found.kind # "pending" /\ \E m \in CompatiblePlacements : Covers(m))
        => found.kind = "generator"

\* C3 (amended): a match is reported whenever some compatible injective
\* placement gives every ordered pair of query nodes exactly the target's
\* edges of each kind between their images; target nodes outside the
\* placement and edges touching them never count. Every yielded mapping has
\* equal edge totals between matched nodes: extra edges there are refused.
C3_InducedMatch ==
    /\ (found.kind # "pending" /\ \E m \in CompatiblePlacements : CoversExactly(m))
          => found.kind = "generator"
    /\ found.kind = "generator" =>
          \A M \in found.mappings : \A p, q \in DOMAIN QueryGraph.nodes :
              NumberOfEdges(target_method_graph, ImageOf(M, p), ImageOf(M, q))
                  = NumberOfEdges(QueryGraph, p, q)

\* a match of a two-node query with an edge, in a target that has a third
\* node with an edge touching it
C3_Witness ==
    /\ found.kind = "generator"
    /\ DOMAIN QueryGraph.nodes = {"x", "y"}
    /\ \E e \in DOMAIN QueryGraph.edges : QueryGraph.edges[e] > 0
    /\ \E M \in found.mappings :
          /\ "c" \in DOMAIN target_method_graph.nodes
          /\ "c" \notin DOMAIN M
          /\ \E e \in DOMAIN target_method_graph.edges :
                /\ target_method_graph.edges[e] > 0
                /\ "c" \in {e[1], e[2]}

ScenarioATarget ==
    Graph("a" :> TVarA @@ "b" :> TAdd,
          [NoEdges({"a", "b"}) EXCEPT ![<<"a", "b", "operand">>] = 1])

ScenarioAPattern ==
    Graph("x" :> PVarA @@ "y" :> PAdd,
          [NoEdges({"x", "y"}) EXCEPT ![<<"x", "y", "operand">>] = 1])

InScenarioA ==
    /\ target_method_graph = ScenarioATarget
    /\ pattern_graph = ScenarioAPattern
    /\ found.kind # "pending"

MaxCands == 4

BeforeCounts == {0, 2}
AfterCounts == {0, 1, 3}
SubtreeSizes == {0, 2, 3, 5}

GraphCands ==
    {[before |-> b, after |-> a, found |-> "generator"] :
        b \in BeforeCounts, a \in AfterCounts}
    \cup {[before |-> 2, after |-> 1, found |-> f] : f \in {"None", "KeyError"}}

TreeCands ==
    {[nodes |-> n, found |-> "mapping"] : n \in SubtreeSizes}
    \cup {[nodes |-> 3, found |-> "None"]}

SeqsUpTo(S, n) == UNION {[1..k -> S] : k \in 0..n}

\* result_mappings.setdefault(key, []).append(entry)
SetDefaultAppend(d, key, entry) ==
    IF key \in DOMAIN d
    THEN [d EXCEPT ![key] = Append(@, entry)]
    ELSE d @@ (key :> <<entry>>)

PatternSize_BeforeOnly(c) == c.before

\* len(pattern_graph.nodes)
PatternSize(c) == c.before + c.after

\* len(subtree.nodes)
SubtreeSize(c) == c.nodes

\* the comparison guarding the update in graph mode
GraphAccepts(size, max) == size > max

TreeAccepts_Strict(size, max) == size > max

\* the comparison guarding the update in tree mode
TreeAccepts(size, max) == size >= max

NothingPrinted == [kind |-> "pending"]
NothingSuitable == [kind |-> "Nothing suitable found"]
Suitable(size, entries) == [kind |-> "suitable", size |-> size, entries |-> entries]

\* the branch on result_mappings.get(max_size, None) after the loop
Printed(d, max) ==
    IF max \in DOMAIN d THEN Suitable(max, d[max]) ELSE NothingSuitable

InitLocate ==
    /\ mode \in {"subgraph", "subtree"}
    /\ cands \in (IF mode = "subgraph" THEN SeqsUpTo(GraphCands, MaxCands)
                                       ELSE SeqsUpTo(TreeCands, MaxCands))
    /\ idx = 0
    /\ max_size = 0
    /\ result_mappings = EmptyDict
    /\ pc = "loop"
    /\ output = NothingPrinted
    /\ NodesIdle
    /\ MatchIdle

\* one iteration of the loop of locate_pattern_by_subgraph_from_source
SubgraphStep ==
    /\ mode = "subgraph"
    /\ pc = "loop"
    /\ idx < Len(cands)
    /\ LET path == idx + 1
           c == cands[path]
       IN  IF c.found = "KeyError"
           THEN /\ pc' = "raised"
                /\ UNCHANGED <<idx, max_size, result_mappings>>
           ELSE /\ pc' = pc
                /\ idx' = path
                /\ IF c.found # "None" /\ GraphAccepts(PatternSize(c), max_size)
                   THEN /\ max_size' = PatternSize(c)
                        /\ result_mappings' =
                              SetDefaultAppend(result_mappings, PatternSize(c),
                                               [found |-> c.found, path |-> path])
                   ELSE UNCHANGED <<max_size, result_mappings>>
    /\ UNCHANGED <<mode, cands, output>>
    /\ UNCHANGED nodeVars
    /\ UNCHANGED matchVars

\* the printing after the loop of locate_pattern_by_subgraph_from_source
SubgraphReport ==
    /\ mode = "subgraph"
    /\ pc = "loop"
    /\ idx = Len(cands)
    /\ output' = Printed(result_mappings, max_size)
    /\ pc' = "printed"
    /\ UNCHANGED <<mode, cands, idx, max_size, result_mappings>>
    /\ UNCHANGED nodeVars
    /\ UNCHANGED matchVars

\* one iteration of the locating loop of locate_pattern_by_subtree
SubtreeStep ==
    /\ mode = "subtree"
    /\ pc = "loop"
    /\ idx < Len(cands)
    /\ LET path == idx + 1
           c == cands[path]
       IN  /\ idx' = path
           /\ IF c.found # "None" /\ TreeAccepts(SubtreeSize(c), max_size)
              THEN /\ max_size' = SubtreeSize(c)
                   /\ result_mappings' =
                         SetDefaultAppend(result_mappings, SubtreeSize(c),
                                          [found |-> c.found, path |-> path])
              ELSE UNCHANGED <<max_size, result_mappings>>
    /\ UNCHANGED <<mode, cands, pc, output>>
    /\ UNCHANGED nodeVars
    /\ UNCHANGED matchVars

\* the printing after the loop of locate_pattern_by_subtree
SubtreeReport ==
    /\ mode = "subtree"
    /\ pc = "loop"
    /\ idx = Len(cands)
    /\ output' = Printed(result_mappings, max_size)
    /\ pc' = "printed"
    /\ UNCHANGED <<mode, cands, idx, max_size, result_mappings>>
    /\ UNCHANGED nodeVars
    /\ UNCHANGED matchVars

NextLocate ==
    \/ SubgraphStep
    \/ SubgraphReport
    \/ SubtreeStep
    \/ SubtreeReport

SpecLocate == InitLocate /\ [][NextLocate]_vars

(***************************************************************************)
(* Claims about the two locate operations (SpecLocate)                     *)
(***************************************************************************)
Matched(c) == c.found \notin {"None", "KeyError"}

\* a candidate's strength as section 4.4 defines it: every node of the
\* pattern graph, or the nodes of the maximal subtree
Strength(c) == IF mode = "subgraph" THEN c.before + c.after ELSE c.nodes

MatchedPaths(n) == {i \in 1..n : Matched(cands[i])}

Greatest(n) ==
    CHOOSE M \in {Strength(cands[i]) : i \in MatchedPaths(n)} :
        \A i \in MatchedPaths(n) : Strength(cands[i]) <= M

\* the matched candidates of strength M among the first n, in order
RECURSIVE PathsWith(_, _)
PathsWith(n, M) ==
    IF n = 0 THEN << >>
    ELSE IF Matched(cands[n]) /\ Strength(cands[n]) = M
         THEN Append(PathsWith(n - 1, M), n)
         ELSE PathsWith(n - 1, M)

EntryPaths(entries) == [i \in 1..Len(entries) |-> entries[i].path]

Strengths == [i \in 1..Len(cands) |-> Strength(cands[i])]

\* C1 (as claimed): in subgraph mode a candidate of strength equal to the
\* maximum is appended, so matched candidates of strengths [3,5,5,2] are
\* reported as M = 5 with the second and the third candidate, in that order.
C1_TieAppended ==
    ( /\ mode = "subgraph"
      /\ pc = "printed"
      /\ Len(cands) = 4
      /\ \A i \in 1..Len(cands) : Matched(cands[i])
      /\ Strengths = <<3, 5, 5, 2>> )
    => /\ output.kind = "suitable"
       /\ output.size = 5
       /\ EntryPaths(output.entries) = <<2, 3>>

\* C6 (as claimed): in both modes 'Nothing suitable found' is printed iff no
\* candidate matched; a match of strength zero is printed as a match.
C6_EmptyIffNoMatch ==
    pc = "printed" =>
        (output = NothingSuitable <=> MatchedPaths(Len(cands)) = {})

\* C7: in subtree mode, after any number of candidates, the set kept for
\* the maximum (and printed at the end) is exactly the matched candidates
\* whose strength is the greatest strength matched so far, in encounter
\* order; with no match nothing is kept and the empty result is printed.
C7_SubtreeRanking ==
    mode = "subtree" =>
        IF MatchedPaths(idx) = {}
        THEN /\ max_size \notin DOMAIN result_mappings
             /\ pc = "printed" => output = NothingSuitable
        ELSE LET M == Greatest(idx)
             IN  /\ max_size = M
                 /\ M \in DOMAIN result_mappings
                 /\ EntryPaths(result_mappings[M]) = PathsWith(idx, M)
                 /\ pc = "printed" =>
                       /\ output.kind = "suitable"
                       /\ output.size = M
                       /\ output.entries = result_mappings[M]

\* a printed tie: two entries, after a weaker match started the set and
\* with a weaker match discarded behind the first entry
C7_Witness ==
    /\ mode = "subtree"
    /\ pc = "printed"
    /\ output.kind = "suitable"
    /\ Len(output.entries) >= 2
    /\ \E i, j \in MatchedPaths(Len(cands)) :
          /\ i < output.entries[1].path
          /\ j > output.entries[1].path
          /\ Strength(cands[i]) < output.size
          /\ Strength(cands[j]) < output.size

Compared == eq_result # "pending"

HasBoth(node) == {"label", "original_label"} \subseteq DOMAIN node

\* variable category: the label begins with 'var'
IsVariable(node) ==
    /\ "label" \in DOMAIN node
    /\ Len(node["label"]) >= 3
    /\ \A i \in 1..3 : node["label"][i] = VarPrefix[i]

HasHint(node) == "longest_common_var_name_suffix" \in DOMAIN node

\* C4 (as claimed): both nodes of the variable category and no hint on the
\* pattern node: the check raises, it returns neither false nor true.
C4_AlwaysRaises ==
    ( /\ Compared
      /\ IsVariable(target_node)
      /\ IsVariable(pattern_node)
      /\ ~HasHint(pattern_node) )
    => eq_result = KeyErrorRaised

\* C4 (amended): both nodes carry label and original_label, both are of the
\* variable category and the pattern node has no hint: the check raises.
C4_RaisesWhenComplete ==
    ( /\ Compared
      /\ HasBoth(target_node)
      /\ HasBoth(pattern_node)
      /\ IsVariable(target_node)
      /\ IsVariable(pattern_node)
      /\ ~HasHint(pattern_node) )
    => eq_result = KeyErrorRaised

C4_Witness ==
    /\ eq_result = KeyErrorRaised
    /\ HasBoth(target_node)
    /\ HasBoth(pattern_node)
    /\ target_node["label"] # pattern_node["label"]

\* s ends with x: s is some word followed by x
IsSuffix(x, s) == \E i \in 0..Len(s) : SubSeq(s, i + 1, Len(s)) = x

\* the rule of section 4.1 for a pair the check answers with a boolean
Reference ==
    IF ~HasBoth(target_node) \/ ~HasBoth(pattern_node)
    THEN FALSE
    ELSE IF IsVariable(target_node) /\ IsVariable(pattern_node)
    THEN IsSuffix(pattern_node["longest_common_var_name_suffix"],
                  target_node["original_label"])
    ELSE /\ target_node["label"] = pattern_node["label"]
         /\ target_node["original_label"] = pattern_node["original_label"]

\* C5: whenever the check returns a boolean, it is the reference rule's.
C5_AgreesWithReference ==
    /\ eq_result = PyTrue => Reference
    /\ eq_result = PyFalse => ~Reference

\* compatible by a proper, non-empty suffix
C5_Witness ==
    /\ eq_result = PyTrue
    /\ IsVariable(target_node)
    /\ IsVariable(pattern_node)
    /\ Len(pattern_node["longest_common_var_name_suffix"]) > 0
    /\ Len(target_node["original_label"])
          > Len(pattern_node["longest_common_var_name_suffix"])
    /\ target_node["original_label"][1]
          # pattern_node["longest_common_var_name_suffix"][1]

\* C10: the check raises only with all four attributes present and both
\* labels of the variable category (and no hint); otherwise it returns a
\* boolean, and a variable pattern node without hint is plainly false
\* against a target that is not of the variable category or lacks an
\* attribute.
C10_RaiseOnlyWhenBothVariable ==
    Compared =>
        /\ eq_result = KeyErrorRaised <=>
              /\ HasBoth(target_node) /\ HasBoth(pattern_node)
              /\ IsVariable(target_node) /\ IsVariable(pattern_node)
              /\ ~HasHint(pattern_node)
        /\ eq_result \in {PyTrue, PyFalse, KeyErrorRaised}
        /\ ( /\ IsVariable(pattern_node)
             /\ ~HasHint(pattern_node)
             /\ ~IsVariable(target_node) \/ ~HasBoth(target_node) )
           => eq_result = PyFalse

\* a complete variable pattern node without hint, found plainly
\* incompatible with a complete target node of another category
C10_Witness ==
    /\ eq_result = PyFalse
    /\ HasBoth(target_node)
    /\ HasBoth(pattern_node)
    /\ IsVariable(pattern_node)
    /\ ~HasHint(pattern_node)
    /\ ~IsVariable(target_node)

====
